---- MODULE Spec2Model ----
(***************************************************************************)
(* Model of the lead generation chatbot (src/chatbot): the startup         *)
(* Assistant Provisioner, the POST /chat conversation runner with its tool *)
(* dispatch, the two tool handlers, GET /get-conversation and the          *)
(* handle_api_error wrapper.  The hosted assistant API and the webhooks    *)
(* are the environment: every call to them may answer or raise.            *)
(***************************************************************************)
EXTENDS Integers, Sequences, FiniteSets, TLC

\* ------------------------------------------------------------------ bounds
\* Tool-call ids the hosted run may issue over one run.
MaxCalls == 2
\* Times a successful submission may not yet show in the next status the
\* hosted API reports.
MaxLag == 1
\* Saturation point of the observation counters (calls made, polls, handler
\* invocations); the counters never guard an action.
MaxCount == 2

Min(a, b) == IF a < b THEN a ELSE b
Bump(n) == Min(n + 1, MaxCount)

\* ------------------------------------------------------- python / JSON values
\* A Python value: py is its type, s its text (str, or the literal of a
\* scalar or list), d the items of a dict.
EmptyDict == [k \in {} |-> [py |-> "NoneType", s |-> "", d |-> <<>>]]
Leaf(py, s) == [py |-> py, s |-> s, d |-> <<>>]
PyNone == Leaf("NoneType", "")
PyStr(s) == Leaf("str", s)
PyInt(s) == Leaf("int", s)
PyBool(s) == Leaf("bool", s)
PyList(s) == [py |-> "list", s |-> s, d |-> <<>>]
PyDict(d) == [py |-> "dict", s |-> "", d |-> d]

\* user_info payloads the model draws from.
P_LEAD == "{\"name\": \"Ann\", \"email\": \"ann@x.io\", \"info\": \"demo\"}"
P_NOMAIL == "{\"name\": \"Bob\", \"info\": \"refund\"}"
P_LIST == "[\"Ann\", \"ann@x.io\"]"
P_BAD == "name: Ann, email: ann@x.io"

\* tool_call.function.arguments strings the model draws from.
A_LEAD == "{\"user_info\": \"{\\\"name\\\": \\\"Ann\\\", \\\"email\\\": \\\"ann@x.io\\\", \\\"info\\\": \\\"demo\\\"}\"}"
A_NOMAIL == "{\"user_info\": \"{\\\"name\\\": \\\"Bob\\\", \\\"info\\\": \\\"refund\\\"}\"}"
A_LIST == "{\"user_info\": \"[\\\"Ann\\\", \\\"ann@x.io\\\"]\"}"
A_BAD == "{\"user_info\": \"name: Ann, email: ann@x.io\"}"
A_NOTSTR == "{\"user_info\": 42}"
A_WRONGKEY == "{\"lead\": \"Ann\"}"
A_TRUNC == "{\"user_info\": \"{"

JsonOk(v) == [exc |-> "none", val |-> v]
JsonErr(e) == [exc |-> e, val |-> PyNone]

\* json.loads: a TypeError for anything that is not text, a JSONDecodeError
\* for text that is not JSON, else the decoded value.
JsonLoads(x) ==
  IF x.py # "str" THEN JsonErr("TypeError")
  ELSE CASE x.s = P_LEAD ->
              JsonOk(PyDict([k \in {"name", "email", "info"} |->
                  CASE k = "name" -> PyStr("Ann")
                    [] k = "email" -> PyStr("ann@x.io")
                    [] OTHER -> PyStr("demo")]))
         [] x.s = P_NOMAIL ->
              JsonOk(PyDict([k \in {"name", "info"} |->
                  IF k = "name" THEN PyStr("Bob") ELSE PyStr("refund")]))
         [] x.s = P_LIST -> JsonOk(PyList(P_LIST))
         [] x.s = A_LEAD -> JsonOk(PyDict([k \in {"user_info"} |-> PyStr(P_LEAD)]))
         [] x.s = A_NOMAIL -> JsonOk(PyDict([k \in {"user_info"} |-> PyStr(P_NOMAIL)]))
         [] x.s = A_LIST -> JsonOk(PyDict([k \in {"user_info"} |-> PyStr(P_LIST)]))
         [] x.s = A_BAD -> JsonOk(PyDict([k \in {"user_info"} |-> PyStr(P_BAD)]))
         [] x.s = A_NOTSTR -> JsonOk(PyDict([k \in {"user_info"} |-> PyInt("42")]))
         [] x.s = A_WRONGKEY -> JsonOk(PyDict([k \in {"lead"} |-> PyStr("Ann")]))
         [] OTHER -> JsonErr("JSONDecodeError")

\* What json.loads says of a value, for stating the claims.
IsValidJson(x) == JsonLoads(x).exc = "none"

\* json.dumps of a result mapping: the text that encodes exactly that mapping.
JsonDumps(m) == [json_of |-> m]

\* A result mapping of a handler or of the dispatch: keys are the keys
\* present, the other fields their values.
Mapping(keys, success, message, data, error) ==
  [keys |-> keys, success |-> success, message |-> message, data |-> data,
   error |-> error]
Failure(message) == Mapping({"success", "message"}, FALSE, message, PyNone, "")
ErrorPayload(error) == Mapping({"error"}, FALSE, "", PyNone, error)

\* --------------------------------------------------------------- environment
EMAIL_RECIPIENT == "support@corp.io"
LeadUrls == {"", "https://hooks/lead"}
SupportUrls == {"", "https://hooks/nolead"}

\* requests.post(url, json=body): one POST, which answered or raised.
Post(url, body, ok) == [url |-> url, body |-> body, ok |-> ok]

\* What a handler call did: its return value, the POSTs it made, and the
\* exception that left it ("none" when it returned).
Outcome(ret, posts, raised) == [ret |-> ret, posts |-> posts, raised |-> raised]

\* ------------------------------------------------------------- tool handlers
\* extract_user_info whose webhook POST is not guarded: a POST that raises
\* reaches the handler's last except clause.
extract_user_info_UnguardedPost(user_info, webhook_url, post_ok) ==
  LET parsed == JsonLoads(user_info) IN
  IF parsed.exc = "JSONDecodeError"
  THEN Outcome(Failure("Invalid user information format"), <<>>, "none")
  ELSE IF parsed.exc # "none"
  THEN Outcome(Failure("Failed to process user information"), <<>>, "none")
  ELSE IF webhook_url # "" /\ ~post_ok
  THEN Outcome(Failure("Failed to process user information"),
               <<Post(webhook_url, parsed.val, post_ok)>>, "none")
  ELSE Outcome(Mapping({"success", "message", "data"}, TRUE,
                       "User information extracted and processed successfully",
                       parsed.val, ""),
               IF webhook_url # ""
               THEN <<Post(webhook_url, parsed.val, post_ok)>>
               ELSE <<>>,
               "none")

extract_user_info(user_info, webhook_url, post_ok) ==
  LET parsed == JsonLoads(user_info) IN
  IF parsed.exc = "JSONDecodeError"
  THEN Outcome(Failure("Invalid user information format"), <<>>, "none")
  ELSE IF parsed.exc # "none"
  THEN Outcome(Failure("Failed to process user information"), <<>>, "none")
  ELSE Outcome(Mapping({"success", "message", "data"}, TRUE,
                       "User information extracted and processed successfully",
                       parsed.val, ""),
               IF webhook_url # ""
               THEN <<Post(webhook_url, parsed.val, post_ok)>>
               ELSE <<>>,
               "none")

\* info["email"] = ...: item assignment, which only a dict supports.
SetItem(info, key, value) ==
  PyDict([k \in DOMAIN info.d \cup {key} |-> IF k = key THEN value ELSE info.d[k]])

\* contact_support forwarding the raw text when it does not parse.
contact_support_ForwardsRaw(user_info, webhook_url, post_ok) ==
  LET parsed == JsonLoads(user_info) IN
  IF parsed.exc = "JSONDecodeError"
  THEN Outcome(Failure("Invalid user information format"),
               IF webhook_url # ""
               THEN <<Post(webhook_url, user_info, post_ok)>>
               ELSE <<>>,
               "none")
  ELSE IF parsed.exc # "none" \/ parsed.val.py # "dict"
  THEN Outcome(Failure("Failed to contact support"), <<>>, "none")
  ELSE Outcome(Mapping({"success", "message"}, TRUE,
                       "Your request has been forwarded to our support team. They will contact you shortly.",
                       PyNone, ""),
               IF webhook_url # ""
               THEN <<Post(webhook_url,
                           SetItem(parsed.val, "email", PyStr(EMAIL_RECIPIENT)), post_ok)>>
               ELSE <<>>,
               "none")

\* contact_support posting the payload as parsed, the email not injected.
contact_support_PostsParsed(user_info, webhook_url, post_ok) ==
  LET parsed == JsonLoads(user_info) IN
  IF parsed.exc = "JSONDecodeError"
  THEN Outcome(Failure("Invalid user information format"), <<>>, "none")
  ELSE IF parsed.exc # "none" \/ parsed.val.py # "dict"
  THEN Outcome(Failure("Failed to contact support"), <<>>, "none")
  ELSE Outcome(Mapping({"success", "message"}, TRUE,
                       "Your request has been forwarded to our support team. They will contact you shortly.",
                       PyNone, ""),
               IF webhook_url # ""
               THEN <<Post(webhook_url, parsed.val, post_ok)>>
               ELSE <<>>,
               "none")

contact_support(user_info, webhook_url, post_ok) ==
  LET parsed == JsonLoads(user_info) IN
  IF parsed.exc = "JSONDecodeError"
  THEN Outcome(Failure("Invalid user information format"), <<>>, "none")
  ELSE IF parsed.exc # "none" \/ parsed.val.py # "dict"
  THEN Outcome(Failure("Failed to contact support"), <<>>, "none")
  ELSE LET info == SetItem(parsed.val, "email", PyStr(EMAIL_RECIPIENT)) IN
       Outcome(Mapping({"success", "message"}, TRUE,
                       "Your request has been forwarded to our support team. They will contact you shortly.",
                       PyNone, ""),
               IF webhook_url # ""
               THEN <<Post(webhook_url, info, post_ok)>>
               ELSE <<>>,
               "none")

FUNCTIONS == {"extract_user_info", "contact_support"}

\* The URL the named handler reads: LEAD_WEBHOOK or NOLEAD_WEBHOOK.
WebhookOf(function_name, lead_url, support_url) ==
  IF function_name = "extract_user_info" THEN lead_url ELSE support_url

\* FUNCTIONS[function_name](user_info): each handler reads its own webhook.
CallFunction(function_name, user_info, lead_url, support_url, post_ok) ==
  IF function_name = "extract_user_info"
  THEN extract_user_info(user_info, WebhookOf(function_name, lead_url, support_url), post_ok)
  ELSE contact_support(user_info, WebhookOf(function_name, lead_url, support_url), post_ok)

\* f(**arguments) binds when arguments is a mapping with exactly the
\* handler's one parameter; anything else is a TypeError.
BindsUserInfo(arguments) ==
  arguments.py = "dict" /\ DOMAIN arguments.d = {"user_info"}

ToolOutput(tool_call_id, m) == [tool_call_id |-> tool_call_id, output |-> JsonDumps(m)]

NoCall == [invoked |-> FALSE, id |-> 0, name |-> "", user_info |-> PyNone,
           webhook_url |-> "", out |-> Outcome(ErrorPayload(""), <<>>, "none")]
\* A handler call: the tool call it serves, the user_info it was given, the
\* webhook URL its os.getenv read, and what it did.
Called(tc, user_info, webhook_url, out) ==
  [invoked |-> TRUE, id |-> tc.id, name |-> tc.name, user_info |-> user_info,
   webhook_url |-> webhook_url, out |-> out]

\* One iteration of the loop over the pending tool calls: the outputs it
\* appends, the handler call it made, and the exception that escapes it.
Dispatched(outputs, call, exc) == [outputs |-> outputs, call |-> call, exc |-> exc]

\* ProcessToolCall without the branch for a name that is not registered.
ProcessToolCall_SkipsUnknown(tc, lead_url, support_url, post_ok) ==
  IF tc.name \in FUNCTIONS
  THEN LET arguments == JsonLoads(PyStr(tc.arguments)) IN
       IF arguments.exc \in {"JSONDecodeError", "TypeError"} \/ ~BindsUserInfo(arguments.val)
       THEN Dispatched(<<ToolOutput(tc.id, ErrorPayload("Invalid function arguments"))>>,
                       NoCall, "none")
       ELSE LET user_info == arguments.val.d["user_info"]
                h == CallFunction(tc.name, user_info, lead_url, support_url, post_ok)
            IN Dispatched(<<ToolOutput(tc.id, h.ret)>>,
                          Called(tc, user_info, WebhookOf(tc.name, lead_url, support_url), h),
                          "none")
  ELSE Dispatched(<<>>, NoCall, "none")

\* ProcessToolCall catching json.JSONDecodeError only, so that the TypeError
\* of binding the arguments escapes.
ProcessToolCall_CatchesDecodeOnly(tc, lead_url, support_url, post_ok) ==
  IF tc.name \in FUNCTIONS
  THEN LET arguments == JsonLoads(PyStr(tc.arguments)) IN
       IF arguments.exc = "JSONDecodeError"
       THEN Dispatched(<<ToolOutput(tc.id, ErrorPayload("Invalid function arguments"))>>,
                       NoCall, "none")
       ELSE IF arguments.exc # "none" \/ ~BindsUserInfo(arguments.val)
       THEN Dispatched(<<>>, NoCall, "TypeError")
       ELSE LET user_info == arguments.val.d["user_info"]
                h == CallFunction(tc.name, user_info, lead_url, support_url, post_ok)
            IN Dispatched(<<ToolOutput(tc.id, h.ret)>>,
                          Called(tc, user_info, WebhookOf(tc.name, lead_url, support_url), h),
                          h.raised)
  ELSE Dispatched(<<ToolOutput(tc.id, ErrorPayload("Function not found"))>>,
                  NoCall, "none")

ProcessToolCall(tc, lead_url, support_url, post_ok) ==
  IF tc.name \in FUNCTIONS
  THEN LET arguments == JsonLoads(PyStr(tc.arguments)) IN
       IF arguments.exc \in {"JSONDecodeError", "TypeError"}
       THEN Dispatched(<<ToolOutput(tc.id, ErrorPayload("Invalid function arguments"))>>,
                       NoCall, "none")
       ELSE IF ~BindsUserInfo(arguments.val)
       THEN Dispatched(<<ToolOutput(tc.id, ErrorPayload("Invalid function arguments"))>>,
                       NoCall, "none")
       ELSE LET user_info == arguments.val.d["user_info"]
                h == CallFunction(tc.name, user_info, lead_url, support_url, post_ok)
                call == Called(tc, user_info, WebhookOf(tc.name, lead_url, support_url), h)
            IN IF h.raised \in {"JSONDecodeError", "TypeError"}
               THEN Dispatched(<<ToolOutput(tc.id, ErrorPayload("Invalid function arguments"))>>,
                               call, "none")
               ELSE IF h.raised # "none"
               THEN Dispatched(<<>>, call, h.raised)
               ELSE IF h.ret.keys # {}
               THEN Dispatched(<<ToolOutput(tc.id, h.ret)>>, call, "none")
               ELSE Dispatched(<<>>, call, "none")
  ELSE Dispatched(<<ToolOutput(tc.id, ErrorPayload("Function not found"))>>,
                  NoCall, "none")

\* The (name, arguments) pairs the hosted run may request.
ToolRequest(name, arguments) == [name |-> name, arguments |-> arguments]
ToolRequests ==
  {ToolRequest("extract_user_info", a) : a \in {A_LEAD, A_LIST, A_BAD, A_NOTSTR, A_WRONGKEY}}
  \cup {ToolRequest("contact_support", a) : a \in {A_NOMAIL, A_LIST, A_BAD, A_TRUNC}}
  \cup {ToolRequest("book_meeting", A_LEAD)}

\* ---------------------------------------------------------------- hosted API
Terminal == {"completed", "failed", "expired"}
ThreadIds == {"t1", "t2", "t3"}
NewThreadId == "t_new"
NewRunId == "run_1"
NewAssistantId == "asst_new"
AssistantReply == "Thanks, we will be in touch."
\* str(e) of an exception a hosted-API call raises.
ExcText == "Connection error: api.host refused (key sk-live)"

Message(role, content) == [role |-> role, content |-> content]
\* Each thread as messages.list returns it: newest message first.
InitialThreads ==
  [t \in ThreadIds |->
     IF t = "t1" THEN <<>>
     ELSE IF t = "t2"
     THEN <<Message("assistant", <<"Hello! How can I help?">>),
            Message("user", <<"hi">>)>>
     ELSE <<Message("assistant", <<>>),       \* a message with no content yet
            Message("user", <<"Anyone there?">>)>>]

\* --------------------------------------------------------------------- state
VARIABLES
  pc,              \* where the process is: provisioning, idle, or in a handler
  prov,            \* the provisioner's locals and the assistant calls it made
  assistant_id,    \* main.assistant_id, set once by create_assistant
  req,             \* the request being handled
  thread_id,       \* chat's thread_id
  run,             \* chat's run: the id of the run runs.create returned
  run_status,      \* the last retrieved run: status and pending tool calls
  tool_outputs,    \* chat's tool_outputs for the batch in hand
  idx,             \* position of the loop over the pending tool calls
  http,            \* the response returned to the caller
  host,            \* the hosted API: threads, the run, what it was sent
  obs              \* what the request did: calls made, handler calls, errors

vars == <<pc, prov, assistant_id, req, thread_id, run, run_status, tool_outputs,
          idx, http, host, obs>>

NoResponse ==
  [status |-> 0, error |-> "", details |-> {}, response |-> "", thread_id |-> "",
   conversation |-> <<>>]
Response(status, fields) ==
  [k \in DOMAIN NoResponse |->
     IF k = "status" THEN status
     ELSE IF k \in DOMAIN fields THEN fields[k] ELSE NoResponse[k]]

\* The hosted-API calls of a request: those made outside the polling loop,
\* which are counted, and those of the loop, which are noted.
OnceCalls == {"threads.create", "messages.create", "runs.create", "messages.list"}
LoopCalls == {"runs.retrieve", "runs.submit_tool_outputs"}

NoRequest == [route |-> "none", body |-> [parsable |-> TRUE, fields |-> EmptyDict],
              thread_id |-> ""]
NoRun == [status |-> "none", tool_calls |-> <<>>]
NoApi == [name |-> "none", thread_id |-> "", run_id |-> "", assistant_id |-> ""]
InitObs ==
  [calls |-> [a \in OnceCalls |-> 0],      \* calls made outside the loop, by name
   loop_calls |-> {},                      \* calls of the polling loop made
   handled |-> [i \in 1..MaxCalls |-> 0],  \* handler invocations per tool-call id
   submitted |-> [i \in 1..MaxCalls |-> 0],\* outputs submitted per tool-call id
   round_submits |-> <<>>,                 \* submissions since the last retrieval
   last_api |-> NoApi,                     \* the last hosted-API call made
   last_call |-> NoCall,                   \* the handler call of the tool call in hand
   api_failed |-> FALSE,                   \* a hosted-API call raised
   raised |-> "none",                      \* what reached handle_api_error
   last_status |-> "none"]                 \* status seen when the loop was left
InitHost ==
  [threads |-> InitialThreads,
   created |-> 0,                          \* threads made by threads.create
   run |-> NoRun,                          \* the run's true state
   run_id |-> "",                          \* the id runs.create gave it
   run_thread |-> "", run_assistant |-> "",
   issued |-> 0,                           \* tool-call ids issued so far
   lag |-> 0]                              \* submissions not yet shown

\* Config.ASSISTANT_ID: unset or empty, or the id of an earlier assistant.
SuppliedIds == {"", "asst_old"}
NoProv == [supplied |-> "", tools |-> "", final |-> "", calls |-> <<>>,
           failed |-> {}]

Init ==
  /\ pc = "prov_setup"
  /\ \E supplied \in SuppliedIds : prov = [NoProv EXCEPT !.supplied = supplied]
  /\ assistant_id = ""
  /\ req = NoRequest
  /\ thread_id = ""
  /\ run = ""
  /\ run_status = NoRun
  /\ tool_outputs = <<>>
  /\ idx = 0
  /\ http = NoResponse
  /\ host = InitHost
  /\ obs = InitObs

\* ------------------------------------------------------ assistant provisioner
requestVars == <<req, thread_id, run, run_status, tool_outputs, idx, http, host, obs>>

\* create_assistant up to the call of create_or_update_assistant: the
\* instructions loader and the knowledge-base setup catch their own failures.
ProvSetup ==
  /\ pc = "prov_setup"
  /\ \E kb \in {"missing", "uploaded", "failed"} :
       prov' = [prov EXCEPT !.tools = IF kb = "uploaded" THEN "file_search+functions"
                                      ELSE "functions",
                            !.failed = IF kb = "failed" THEN {"knowledge_base"} ELSE {}]
  /\ pc' = IF prov.supplied # "" THEN "prov_retrieve" ELSE "prov_create"
  /\ UNCHANGED <<assistant_id, requestVars>>

\* AfterUpdate letting a failed update end the provisioning.
AfterUpdate_Raises(ok) == IF ok THEN "prov_save" ELSE "aborted"

\* Where control goes after a step of the update attempt.
AfterRetrieve(ok) == IF ok THEN "prov_update" ELSE "prov_create"
AfterUpdate(ok) == IF ok THEN "prov_save" ELSE "prov_create"
AfterCreate(ok) == IF ok THEN "prov_save" ELSE "aborted"

ProvRetrieve ==
  /\ pc = "prov_retrieve"
  /\ \E ok \in BOOLEAN :
       /\ prov' = [prov EXCEPT !.calls = Append(@, "retrieve"),
                               !.failed = IF ok THEN @ ELSE @ \cup {"retrieve"}]
       /\ pc' = AfterRetrieve(ok)
  /\ UNCHANGED <<assistant_id, requestVars>>

ProvUpdate ==
  /\ pc = "prov_update"
  /\ \E ok \in BOOLEAN :
       /\ prov' = [prov EXCEPT !.calls = Append(@, "update"),
                               !.final = IF ok THEN prov.supplied ELSE @,
                               !.failed = IF ok THEN @ ELSE @ \cup {"update"}]
       /\ pc' = AfterUpdate(ok)
  /\ UNCHANGED <<assistant_id, requestVars>>

\* A failed create is re-raised by both functions: startup aborts.
ProvCreate ==
  /\ pc = "prov_create"
  /\ \E ok \in BOOLEAN :
       /\ prov' = [prov EXCEPT !.calls = Append(@, "create"),
                               !.final = IF ok THEN NewAssistantId ELSE @,
                               !.failed = IF ok THEN @ ELSE @ \cup {"create"}]
       /\ pc' = AfterCreate(ok)
  /\ UNCHANGED <<assistant_id, requestVars>>

\* The best-effort write of assistant.json (written or not, nothing is
\* raised), then the return to main, which ends the provisioner's locals.
ProvSave ==
  /\ pc = "prov_save"
  /\ \E written \in BOOLEAN : prov' = NoProv
  /\ assistant_id' = prov.final
  /\ pc' = "idle"
  /\ UNCHANGED requestVars

Provision == ProvSetup \/ ProvRetrieve \/ ProvUpdate \/ ProvCreate \/ ProvSave

\* ------------------------------------------------------------- HTTP surface
ChatBody(fields) == [parsable |-> TRUE, fields |-> fields]
\* The JSON bodies POST /chat is sent.
ChatBodies ==
  { ChatBody("thread_id" :> PyStr("t2") @@ "message" :> PyStr("Any news?")
             @@ "stream" :> PyBool("true")),
    ChatBody("message" :> PyStr("Hi")),
    ChatBody("thread_id" :> PyNone @@ "message" :> PyStr("Hello")),
    ChatBody("thread_id" :> PyStr("") @@ "message" :> PyStr("")),
    ChatBody("thread_id" :> PyStr("t1") @@ "stream" :> PyBool("false")),
    ChatBody("thread_id" :> PyStr("t1") @@ "message" :> PyInt("42")),
    ChatBody("thread_id" :> PyStr("t1") @@ "message" :> PyStr("Hi")
             @@ "session" :> PyStr("s1")),
    [parsable |-> FALSE, fields |-> EmptyDict] }
\* The <thread_id> segments GET /get-conversation is sent.
ConvThreadIds == ThreadIds \cup {" "}

\* ChatRequestSchema.load: the fields in error (unknown fields, a missing
\* message, a value of the wrong type).
\* SchemaErrors with message declared required=False.
SchemaErrors_MessageOptional(fields) ==
  {k \in DOMAIN fields : k \notin {"thread_id", "message", "stream"}}
  \cup {k \in DOMAIN fields \cap {"thread_id"} : fields[k].py \notin {"str", "NoneType"}}
  \cup {k \in DOMAIN fields \cap {"message"} : fields[k].py # "str"}
  \cup {k \in DOMAIN fields \cap {"stream"} : fields[k].py # "bool"}

SchemaErrors(fields) ==
  {k \in DOMAIN fields : k \notin {"thread_id", "message", "stream"}}
  \cup (IF "message" \in DOMAIN fields THEN {} ELSE {"message"})
  \cup {k \in DOMAIN fields \cap {"thread_id"} : fields[k].py \notin {"str", "NoneType"}}
  \cup {k \in DOMAIN fields \cap {"message"} : fields[k].py # "str"}
  \cup {k \in DOMAIN fields \cap {"stream"} : fields[k].py # "bool"}

\* data.get(key): None when the key is absent.
Get(fields, key) == IF key \in DOMAIN fields THEN fields[key] ELSE PyNone
\* Python truth of a str or None.
Truthy(v) == v.py # "NoneType" /\ v.s # ""
\* str.strip() leaves something.
NonBlank(t) == t \notin {"", " "}

\* handle_api_error: what the wrapper returns for an exception of the handler.
handle_api_error(raised, details) ==
  IF raised = "ValidationError"
  THEN Response(400, "error" :> "Invalid request data" @@ "details" :> details)
  ELSE Response(500, "error" :> "Internal server error")

\* A hosted-API call answers or raises.
ApiOutcomes == BOOLEAN

\* The call as the handler makes it: the thread, run and assistant it names.
ApiCall(name) ==
  [name |-> name,
   thread_id |-> IF name = "threads.create" THEN ""
                 ELSE IF req.route = "conversation" THEN req.thread_id
                 ELSE thread_id,
   run_id |-> IF name \in LoopCalls THEN run ELSE "",
   assistant_id |-> IF name = "runs.create" THEN assistant_id ELSE ""]
NoteCall(name) ==
  IF name \in OnceCalls
  THEN [obs EXCEPT !.calls[name] = Bump(@), !.last_api = ApiCall(name)]
  ELSE [obs EXCEPT !.loop_calls = @ \cup {name}, !.last_api = ApiCall(name)]
NoteFailure(o) == [o EXCEPT !.api_failed = TRUE, !.raised = "APIError"]

\* A request arrives at the running service.
Receive ==
  /\ pc = "idle"
  /\ \/ \E b \in ChatBodies :
          /\ req' = [route |-> "chat", body |-> b, thread_id |-> ""]
          /\ pc' = "chat_load"
     \/ \E t \in ConvThreadIds :
          /\ req' = [route |-> "conversation", body |-> NoRequest.body,
                     thread_id |-> t]
          /\ pc' = "conv"
  /\ UNCHANGED <<prov, assistant_id, thread_id, run, run_status, tool_outputs,
                 idx, http, host, obs>>

\* chat, lines 92-97: load the body, read thread_id.
ChatLoad ==
  /\ pc = "chat_load"
  /\ IF ~req.body.parsable
     THEN /\ http' = handle_api_error("BadRequest", {})
          /\ obs' = [obs EXCEPT !.raised = "BadRequest"]
          /\ pc' = "done"
          /\ UNCHANGED thread_id
     ELSE IF SchemaErrors(req.body.fields) # {}
     THEN /\ http' = handle_api_error("ValidationError", SchemaErrors(req.body.fields))
          /\ obs' = [obs EXCEPT !.raised = "ValidationError"]
          /\ pc' = "done"
          /\ UNCHANGED thread_id
     ELSE /\ thread_id' = Get(req.body.fields, "thread_id").s
          /\ pc' = IF Truthy(Get(req.body.fields, "thread_id"))
                   THEN "chat_add_message" ELSE "chat_new_thread"
          /\ UNCHANGED <<http, obs>>
  /\ UNCHANGED <<prov, assistant_id, req, run, run_status, tool_outputs, idx, host>>

\* MissingThreadId answering with the thread it made.
MissingThreadId_ReturnsThread(new_id) == Response(200, "thread_id" :> new_id)

\* chat, line 103: what the missing-thread_id branch returns, new_id being the
\* thread it has just made.
MissingThreadId(new_id) == Response(400, "error" :> "Missing thread_id")

\* chat, lines 98-103: the missing-thread_id branch.
ChatNewThread ==
  /\ pc = "chat_new_thread"
  /\ \E ok \in ApiOutcomes :
       IF ok
       THEN /\ host' = [host EXCEPT !.created = Bump(@)]
            /\ thread_id' = NewThreadId
            /\ http' = MissingThreadId(NewThreadId)
            /\ obs' = NoteCall("threads.create")
       ELSE /\ http' = handle_api_error("APIError", {})
            /\ obs' = NoteFailure(NoteCall("threads.create"))
            /\ UNCHANGED <<host, thread_id>>
  /\ pc' = "done"
  /\ UNCHANGED <<prov, assistant_id, req, run, run_status, tool_outputs, idx>>

\* chat, lines 108-110: append the user's message to the thread.
ChatAddMessage ==
  /\ pc = "chat_add_message"
  /\ \E ok \in ApiOutcomes :
       IF ok
       THEN /\ host' = [host EXCEPT !.threads[thread_id] =
                          <<Message("user", <<Get(req.body.fields, "message").s>>)>> \o @]
            /\ obs' = NoteCall("messages.create")
            /\ pc' = "chat_create_run"
            /\ UNCHANGED http
       ELSE /\ http' = handle_api_error("APIError", {})
            /\ obs' = NoteFailure(NoteCall("messages.create"))
            /\ pc' = "done"
            /\ UNCHANGED host
  /\ UNCHANGED <<prov, assistant_id, req, thread_id, run, run_status, tool_outputs, idx>>

\* chat, lines 113-118: start the run.
ChatCreateRun ==
  /\ pc = "chat_create_run"
  /\ \E ok \in ApiOutcomes :
       IF ok
       THEN /\ host' = [host EXCEPT !.run = [status |-> "queued", tool_calls |-> <<>>],
                                    !.run_id = NewRunId,
                                    !.run_thread = thread_id,
                                    !.run_assistant = assistant_id]
            /\ run' = NewRunId
            /\ obs' = NoteCall("runs.create")
            /\ pc' = "chat_retrieve"
            /\ UNCHANGED http
       ELSE /\ http' = handle_api_error("APIError", {})
            /\ obs' = NoteFailure(NoteCall("runs.create"))
            /\ pc' = "done"
            /\ UNCHANGED <<host, run>>
  /\ UNCHANGED <<prov, assistant_id, req, thread_id, run_status, tool_outputs, idx>>

\* AfterStatus leaving the loop on requires_action too.
AfterStatus_LeavesOnAction(status) ==
  IF status \in {"completed", "failed", "expired", "requires_action"} THEN "chat_list"
  ELSE "chat_sleep"

\* The loop's test of the retrieved status (lines 126-128): where it goes next.
AfterStatus(status) ==
  IF status \in {"completed", "failed", "expired"} THEN "chat_list"
  ELSE IF status = "requires_action" THEN "chat_tool_loop"
  ELSE "chat_sleep"

\* chat, lines 121-128: retrieve the run and branch on its status.
ChatRetrieve ==
  /\ pc = "chat_retrieve"
  /\ \E ok \in ApiOutcomes :
       IF ok
       THEN /\ run_status' = host.run
            /\ tool_outputs' = <<>>
            /\ idx' = IF host.run.status = "requires_action" THEN 1 ELSE 0
            /\ pc' = AfterStatus(host.run.status)
            /\ obs' = [NoteCall("runs.retrieve") EXCEPT
                         !.round_submits = <<>>,
                         !.last_call = NoCall,
                         !.last_status = host.run.status]
            /\ UNCHANGED http
       ELSE /\ http' = handle_api_error("APIError", {})
            /\ obs' = NoteFailure(NoteCall("runs.retrieve"))
            /\ pc' = "done"
            /\ UNCHANGED <<run_status, tool_outputs, idx>>
  /\ UNCHANGED <<prov, assistant_id, req, thread_id, run, host>>

\* chat, lines 131-164: one pending tool call; the handler it calls reads its
\* webhook URL from the environment and POSTs to it, which answers or raises.
ChatToolCall ==
  /\ pc = "chat_tool_loop"
  /\ idx <= Len(run_status.tool_calls)
  /\ \E lead_url \in LeadUrls, support_url \in SupportUrls, post_ok \in BOOLEAN :
       LET tc == run_status.tool_calls[idx]
           r == ProcessToolCall(tc, lead_url, support_url, post_ok)
           seen == [obs EXCEPT !.last_call = r.call,
                               !.handled[tc.id] = IF r.call.invoked THEN Bump(@) ELSE @]
       IN IF r.exc = "none"
          THEN /\ tool_outputs' = tool_outputs \o r.outputs
               /\ idx' = idx + 1
               /\ obs' = seen
               /\ UNCHANGED <<pc, http>>
          ELSE /\ http' = handle_api_error(r.exc, {})
               /\ obs' = [seen EXCEPT !.raised = r.exc]
               /\ pc' = "done"
               /\ UNCHANGED <<tool_outputs, idx>>
  /\ UNCHANGED <<prov, assistant_id, req, thread_id, run, run_status, host>>

\* What the hosted API does with a submission it accepts: the run resumes,
\* or its status still shows the same pending calls for a while.
Resumed(h) == [h EXCEPT !.run = [status |-> "queued", tool_calls |-> <<>>]]
Lagging(h) == [h EXCEPT !.lag = @ + 1]

NoteSubmit(o, outputs) ==
  [o EXCEPT !.round_submits = Append(@, outputs),
            !.last_call = NoCall,
            !.submitted = [i \in DOMAIN @ |->
               IF \E k \in 1..Len(outputs) : outputs[k].tool_call_id = i
               THEN Bump(@[i]) ELSE @[i]]]

\* chat, lines 166-172: submit the batch's outputs, when there are any.
ChatSubmit ==
  /\ pc = "chat_tool_loop"
  /\ idx > Len(run_status.tool_calls)
  /\ IF tool_outputs # <<>>
     THEN LET made == NoteSubmit(NoteCall("runs.submit_tool_outputs"), tool_outputs) IN
          \/ /\ host.run.status = "requires_action"
             /\ \/ host' = Resumed(host)
                \/ /\ host.lag < MaxLag
                   /\ host' = Lagging(host)
             /\ obs' = made
             /\ pc' = "chat_sleep"
             /\ UNCHANGED http
          \/ /\ http' = handle_api_error("APIError", {})
             /\ obs' = NoteFailure(made)
             /\ pc' = "done"
             /\ UNCHANGED host
     ELSE /\ pc' = "chat_sleep"
          /\ obs' = [obs EXCEPT !.last_call = NoCall]
          /\ UNCHANGED <<host, http>>
  /\ UNCHANGED <<prov, assistant_id, req, thread_id, run, run_status, tool_outputs, idx>>

\* chat, line 174: time.sleep(1), then the next turn of the loop.
ChatSleep ==
  /\ pc = "chat_sleep"
  /\ pc' = "chat_retrieve"
  /\ UNCHANGED <<prov, assistant_id, req, thread_id, run, run_status, tool_outputs,
                 idx, http, host, obs>>

\* LatestMessage reading the other end of the listing.
LatestMessage_Oldest(data, tid) ==
  IF data = <<>>
  THEN [raised |-> "none", resp |-> Response(500, "error" :> "No response generated")]
  ELSE [raised |-> "none",
        resp |-> Response(200, "response" :> data[Len(data)].content[1]
                               @@ "thread_id" :> tid)]

\* chat, lines 177-185: the reply built from the newest message of the thread.
LatestMessage(data, tid) ==
  IF data = <<>>
  THEN [raised |-> "none", resp |-> Response(500, "error" :> "No response generated")]
  ELSE IF data[1].content = <<>>
  THEN [raised |-> "IndexError", resp |-> handle_api_error("IndexError", {})]
  ELSE [raised |-> "none",
        resp |-> Response(200, "response" :> data[1].content[1] @@ "thread_id" :> tid)]

ChatList ==
  /\ pc = "chat_list"
  /\ \E ok \in ApiOutcomes :
       IF ok
       THEN LET r == LatestMessage(host.threads[thread_id], thread_id) IN
            /\ http' = r.resp
            /\ obs' = [NoteCall("messages.list") EXCEPT !.raised = r.raised]
       ELSE /\ http' = handle_api_error("APIError", {})
            /\ obs' = NoteFailure(NoteCall("messages.list"))
  /\ pc' = "done"
  /\ UNCHANGED <<prov, assistant_id, req, thread_id, run, run_status, tool_outputs,
                 idx, host>>

Chat == ChatLoad \/ ChatNewThread \/ ChatAddMessage \/ ChatCreateRun \/ ChatRetrieve
        \/ ChatToolCall \/ ChatSubmit \/ ChatSleep \/ ChatList

\* ------------------------------------------------------------ the hosted run
RunIs(S) == pc \in {"chat_retrieve", "chat_tool_loop", "chat_sleep"} /\ host.run.status \in S
hostOnly == <<pc, prov, assistant_id, req, thread_id, run, run_status, tool_outputs,
              idx, http, obs>>

HostStart ==
  /\ RunIs({"queued"})
  /\ host' = [host EXCEPT !.run.status = "in_progress"]
  /\ UNCHANGED hostOnly

\* The run asks for a batch of tool calls, each with a fresh id.
HostRequireAction ==
  /\ RunIs({"in_progress"})
  /\ \E n \in 0..(MaxCalls - host.issued) :
       \E rs \in [1..n -> ToolRequests] :
          host' = [host EXCEPT
                     !.run = [status |-> "requires_action",
                              tool_calls |-> [i \in 1..n |->
                                 [id |-> host.issued + i, name |-> rs[i].name,
                                  arguments |-> rs[i].arguments]]],
                     !.issued = @ + n]
  /\ UNCHANGED hostOnly

\* The run completes: the assistant's reply becomes the newest message.
HostComplete ==
  /\ RunIs({"in_progress"})
  /\ host' = [host EXCEPT !.run.status = "completed",
                          !.threads[host.run_thread] =
                             <<Message("assistant", <<AssistantReply>>)>> \o @]
  /\ UNCHANGED hostOnly

HostFail ==
  /\ RunIs({"queued", "in_progress"})
  /\ host' = [host EXCEPT !.run.status = "failed"]
  /\ UNCHANGED hostOnly

HostExpire ==
  /\ RunIs({"queued", "in_progress", "requires_action"})
  /\ host' = [host EXCEPT !.run.status = "expired"]
  /\ UNCHANGED hostOnly

Host == HostStart \/ HostRequireAction \/ HostComplete \/ HostFail \/ HostExpire

\* ------------------------------------------------------ GET /get-conversation
Reverse(q) == [i \in 1..Len(q) |-> q[Len(q) + 1 - i]]
\* str.upper() of a message role.
Upper(role) ==
  CASE role = "user" -> "USER"
    [] role = "assistant" -> "ASSISTANT"
    [] OTHER -> role
HasContent(m) == Len(m.content) > 0
\* f"{message.role.upper()}: {content}", as the pieces the f-string joins.
Line(m) == <<Upper(m.role), ": ", m.content[1]>>

\* get_conversation: the text it returns, as its lines (the "\n".join of the
\* parts); listed is whether messages.list answered, messages what it gave.
get_conversation(tid, listed, messages) ==
  IF tid = "" THEN << <<"Error: Thread ID is required">> >>
  ELSE IF ~listed THEN << <<"Error retrieving conversation: ", ExcText>> >>
  ELSE IF messages = <<>> THEN << <<"No messages found in conversation">> >>
  ELSE LET kept == SelectSeq(Reverse(messages), HasContent) IN
       [i \in 1..Len(kept) |-> Line(kept[i])]

\* retrieve_conversation, lines 190-196, with the get_conversation it calls.
retrieve_conversation ==
  /\ pc = "conv"
  /\ IF ~NonBlank(req.thread_id)
     THEN /\ http' = Response(400, "error" :> "Invalid thread_id")
          /\ UNCHANGED obs
     ELSE \E ok \in ApiOutcomes :
            /\ http' = Response(200, "conversation" :>
                         get_conversation(req.thread_id, ok,
                            IF req.thread_id \in DOMAIN host.threads
                            THEN host.threads[req.thread_id] ELSE <<>>))
            /\ obs' = IF ok THEN NoteCall("messages.list")
                      ELSE [NoteCall("messages.list") EXCEPT !.api_failed = TRUE]
  /\ pc' = "done"
  /\ UNCHANGED <<prov, assistant_id, req, thread_id, run, run_status, tool_outputs,
                 idx, host>>

\* ------------------------------------------------------------- specification
Next == Provision \/ Receive \/ Chat \/ Host \/ retrieve_conversation

Spec == Init /\ [][Next]_vars

\* The polling loop goes on and the listing after it is made: a Python thread
\* that is not blocked in a call takes its next step (lines 120-177).
LiveSpec ==
  Spec /\ WF_vars(ChatSleep) /\ WF_vars(ChatRetrieve) /\ WF_vars(ChatList)

\* ===================================================================== claims
ChatThread == Get(req.body.fields, "thread_id")
InChat == req.route = "chat"
ChatEnded == InChat /\ pc = "done"
\* The ids of a batch of tool outputs that answer tool call c.
Answers(outs, c) == {k \in 1..Len(outs) : outs[k].tool_call_id = c.id}

\* C1: whenever the runner has seen requires_action with N >= 1 pending tool
\* calls and has left the loop over them, it has made exactly one
\* submit_tool_outputs call since that retrieval, carrying exactly N outputs,
\* exactly one for each pending call's id; while it is still in the loop over
\* the calls it has submitted nothing.
C1_OneSubmissionPerBatch ==
  (InChat /\ run_status.status = "requires_action" /\ Len(run_status.tool_calls) >= 1)
  => IF pc = "chat_tool_loop"
     THEN obs.round_submits = <<>>
     ELSE /\ Len(obs.round_submits) = 1
          /\ Len(obs.round_submits[1]) = Len(run_status.tool_calls)
          /\ \A i \in 1..Len(run_status.tool_calls) :
               Cardinality(Answers(obs.round_submits[1], run_status.tool_calls[i])) = 1
C1_Witness ==
  /\ pc = "chat_sleep"
  /\ run_status.status = "requires_action"
  /\ Len(run_status.tool_calls) = 2
  /\ run_status.tool_calls[1].name = "book_meeting"
  /\ run_status.tool_calls[2].arguments = A_TRUNC
  /\ Len(obs.round_submits) = 1

\* C2: over one POST /chat, no tool call has its handler invoked more than
\* once, and none has its output submitted more than once.
C2_ConsumedExactlyOnce ==
  InChat => \A i \in 1..MaxCalls : obs.handled[i] <= 1 /\ obs.submitted[i] <= 1

LoopPcs == {"chat_retrieve", "chat_tool_loop", "chat_sleep"}

\* C3: the polling loop is left for the reply only by a status retrieval that
\* returned completed, failed or expired; after any other status the runner
\* goes on to sleep and then to the next retrieval (through the tool calls
\* when the status is requires_action), an empty batch sending no submission;
\* the only other way out of the loop is an exception.
C3_PollsUntilTerminal ==
  [][ /\ (pc \in LoopPcs /\ pc' = "chat_list")
         => (pc = "chat_retrieve" /\ run_status'.status \in Terminal)
      /\ (pc = "chat_retrieve" /\ pc' # pc /\ pc' # "done"
          /\ run_status'.status \notin Terminal)
         => pc' = IF run_status'.status = "requires_action"
                  THEN "chat_tool_loop" ELSE "chat_sleep"
      /\ (pc = "chat_tool_loop" /\ pc' # pc)
         => /\ pc' \in {"chat_sleep", "done"}
            /\ run_status.tool_calls = <<>>
               => (pc' = "chat_sleep" /\ obs' = obs /\ host' = host)
      /\ (pc = "chat_sleep" /\ pc' # pc) => pc' = "chat_retrieve"
      /\ (pc \in LoopPcs /\ pc' = "done") => obs'.raised # "none"
    ]_vars
C3_Witness ==
  /\ pc = "chat_retrieve"
  /\ run_status.status = "requires_action"
  /\ run_status.tool_calls = <<>>
  /\ "runs.submit_tool_outputs" \notin obs.loop_calls

\* C4: for a valid body with a non-empty thread_id T, once the hosted run is
\* completed the request comes to return 200 with thread_id T and, as its
\* response, the text of the newest message of thread T, unless a hosted-API
\* call has raised.
C4_Returned ==
  /\ ChatEnded
  /\ \/ obs.api_failed
     \/ /\ http.status = 200
        /\ http.thread_id = ChatThread.s
        /\ http.response = host.threads[ChatThread.s][1].content[1]
C4_CompletedRunIsAnswered ==
  (InChat /\ Truthy(ChatThread) /\ host.run.status = "completed") ~> C4_Returned
C4_Witness ==
  /\ ChatEnded
  /\ ~obs.api_failed
  /\ host.run.status = "completed"
  /\ http.status = 200
  /\ http.response = AssistantReply
  /\ obs.handled[1] = 1

\* C5: POST /chat answers 200 with a reply only when the last status it saw
\* was completed.
C5_ReplyOnlyWhenCompleted ==
  (ChatEnded /\ http.status = 200) => obs.last_status = "completed"

\* C6 as stated: a valid body without a thread_id is always answered 400
\* "Missing thread_id", having made exactly one new thread and nothing else.
MissingThread == ChatEnded /\ obs.raised \notin {"BadRequest", "ValidationError"}
                 /\ ~Truthy(ChatThread)
OnlyThreadCreate ==
  /\ obs.calls = [a \in OnceCalls |-> IF a = "threads.create" THEN 1 ELSE 0]
  /\ obs.loop_calls = {}
  /\ host.threads = InitialThreads
  /\ host.run = NoRun
  /\ http.thread_id = "" /\ http.response = ""
C6_MissingThreadAlways400 ==
  MissingThread =>
    /\ http.status = 400 /\ http.error = "Missing thread_id"
    /\ host.created = 1
    /\ OnlyThreadCreate
\* C6 as amended: it makes exactly one thread-creation call and no other
\* hosted-API call, and never returns a thread id; it answers 400 "Missing
\* thread_id" with one thread made when that call answers, and 500 "Internal
\* server error" with none made when it raises.
C6_MissingThread400UnlessCreateRaises ==
  MissingThread =>
    /\ OnlyThreadCreate
    /\ IF obs.api_failed
       THEN http.status = 500 /\ http.error = "Internal server error" /\ host.created = 0
       ELSE http.status = 400 /\ http.error = "Missing thread_id" /\ host.created = 1
C6_Witness ==
  /\ MissingThread
  /\ "thread_id" \notin DOMAIN req.body.fields
  /\ http.status = 400
  /\ host.created = 1

\* Every piece of text in a response body.
BodyTexts(h) ==
  {h.error, h.response}
  \cup UNION {{h.conversation[i][j] : j \in 1..Len(h.conversation[i])} :
              i \in 1..Len(h.conversation)}

\* C7: on both wrapped routes a validation error is answered 400 with field
\* details, any other exception of the handling, a failed hosted-API call
\* included, is answered 500 "Internal server error", and no response body
\* carries the text of an exception.
C7_ErrorsAreMapped ==
  pc = "done" =>
    /\ obs.raised = "ValidationError" => (http.status = 400 /\ http.details # {})
    /\ (obs.api_failed \/ obs.raised \notin {"none", "ValidationError"})
       => (http.status = 500 /\ http.error = "Internal server error")
    /\ ExcText \notin BodyTexts(http)

\* C11: a GET /get-conversation with a blank id is answered 400; with any
\* other id it is answered 200 with a conversation that is the literal "No
\* messages found in conversation" for a thread without messages, and else has
\* one line per message of the thread, oldest first, each "ROLE: content".
ConvEnded == req.route = "conversation" /\ pc = "done"
ConvThread == host.threads[req.thread_id]
C11_ConversationListsEveryMessage ==
  ConvEnded =>
    IF ~NonBlank(req.thread_id) THEN http.status = 400
    ELSE /\ http.status = 200
         /\ IF ConvThread = <<>>
            THEN http.conversation = << <<"No messages found in conversation">> >>
            ELSE /\ Len(http.conversation) = Len(ConvThread)
                 /\ \A i \in 1..Len(ConvThread) :
                      LET m == Reverse(ConvThread)[i] IN
                      /\ http.conversation[i][1] = Upper(m.role)
                      /\ HasContent(m) => http.conversation[i] = Line(m)

LastCall == obs.last_call
SupportCall == LastCall.invoked /\ LastCall.name = "contact_support"
Forwarded ==
  "Your request has been forwarded to our support team. They will contact you shortly."
Parsed(x) == JsonLoads(x).val

\* C8: a handler called with a user_info that is not valid JSON returns a
\* mapping with success = false and a message, raises nothing and makes no
\* POST, whichever of the two handlers it is.
C8_InvalidJsonIsRefused ==
  (LastCall.invoked /\ ~IsValidJson(LastCall.user_info)) =>
    /\ LastCall.out.raised = "none"
    /\ {"success", "message"} \subseteq LastCall.out.ret.keys
    /\ LastCall.out.ret.success = FALSE
    /\ LastCall.out.ret.message # ""
    /\ LastCall.out.posts = <<>>
C8_Witness ==
  /\ pc = "chat_tool_loop" /\ idx = 3
  /\ run_status.tool_calls[1] = [id |-> 1, name |-> "extract_user_info", arguments |-> A_BAD]
  /\ LastCall.invoked /\ LastCall.id = 2 /\ LastCall.name = "contact_support"
  /\ LastCall.user_info = PyStr(P_BAD)
  /\ LastCall.webhook_url # ""
  /\ obs.handled = [i \in 1..MaxCalls |-> IF i <= 2 THEN 1 ELSE 0]

\* C9: extract_user_info called with a user_info that is valid JSON makes at
\* most one POST, exactly one when LEAD_WEBHOOK is set, to that URL and with
\* the parsed payload as its body; it returns success = true with data equal
\* to the parsed payload whether the POST answered or raised; the output
\* appended for the call encodes that mapping; and the outputs submitted are
\* the ones appended.
C9_ValidLeadIsForwarded ==
  /\ (pc = "chat_sleep" /\ tool_outputs # <<>>) => obs.round_submits = <<tool_outputs>>
  /\ (LastCall.invoked /\ LastCall.name = "extract_user_info"
      /\ IsValidJson(LastCall.user_info)) =>
       /\ LastCall.webhook_url \in LeadUrls
       /\ Len(LastCall.out.posts) = IF LastCall.webhook_url # "" THEN 1 ELSE 0
       /\ \A k \in 1..Len(LastCall.out.posts) :
            /\ LastCall.out.posts[k].url = LastCall.webhook_url
            /\ LastCall.out.posts[k].body = Parsed(LastCall.user_info)
       /\ LastCall.out.raised = "none"
       /\ LastCall.out.ret.success = TRUE
       /\ "data" \in LastCall.out.ret.keys
       /\ LastCall.out.ret.data = Parsed(LastCall.user_info)
       /\ tool_outputs # <<>>
       /\ tool_outputs[Len(tool_outputs)].tool_call_id = LastCall.id
       /\ tool_outputs[Len(tool_outputs)].output.json_of.success = TRUE
       /\ tool_outputs[Len(tool_outputs)].output.json_of.data = Parsed(LastCall.user_info)
C9_Witness ==
  /\ pc = "chat_tool_loop"
  /\ LastCall.invoked /\ LastCall.name = "extract_user_info"
  /\ LastCall.user_info = PyStr(P_LEAD)
  /\ Len(LastCall.out.posts) = 1 /\ ~LastCall.out.posts[1].ok
  /\ LastCall.out.posts[1].body.d["email"] = PyStr("ann@x.io")
  /\ LastCall.out.ret.success

\* C10: when create_or_update_assistant is left (pc is prov_save or aborted):
\* with an id supplied and retrieve and update answering, the calls were
\* retrieve then update and the id returned is the one supplied; with an id
\* supplied and retrieve or update raising, exactly one create follows the
\* failed call and the new id is returned; with no id supplied the only call
\* is create; provisioning fails exactly when the create call raised; and
\* create_assistant hands the id it got to main.
ProvCalls ==
  IF prov.supplied = "" THEN <<"create">>
  ELSE IF "retrieve" \in prov.failed THEN <<"retrieve", "create">>
  ELSE IF "update" \in prov.failed THEN <<"retrieve", "update", "create">>
  ELSE <<"retrieve", "update">>
C10_Outcome ==
  /\ pc \in {"prov_save", "aborted"} =>
       /\ prov.calls = ProvCalls
       /\ (pc = "aborted") = ("create" \in prov.failed)
  /\ pc = "prov_save" =>
       prov.final = IF prov.calls[Len(prov.calls)] = "update"
                    THEN prov.supplied ELSE NewAssistantId
  /\ pc \in {"prov_setup", "prov_retrieve", "prov_update", "prov_create",
             "prov_save", "aborted"} => assistant_id = ""
C10_UpdateFailureFallsBackToCreate ==
  []C10_Outcome /\ [][pc = "prov_save" => assistant_id' = prov.final]_vars
C10_Witness ==
  /\ pc = "prov_save"
  /\ prov.supplied = "asst_old"
  /\ prov.failed = {"knowledge_base", "update"}
  /\ prov.calls = <<"retrieve", "update", "create">>
  /\ prov.final = NewAssistantId

\* C12 as stated: contact_support called with any user_info that is valid JSON
\* returns success = true with the fixed confirmation message and, when
\* NOLEAD_WEBHOOK is set, has posted the parsed payload with its email field
\* set to the support address, whether the POST answered or raised.
C12_ValidJsonIsForwardedToSupport ==
  (SupportCall /\ IsValidJson(LastCall.user_info)) =>
    /\ LastCall.out.raised = "none"
    /\ LastCall.out.ret.success = TRUE
    /\ LastCall.out.ret.message = Forwarded
    /\ Len(LastCall.out.posts) = IF LastCall.webhook_url # "" THEN 1 ELSE 0
    /\ \A k \in 1..Len(LastCall.out.posts) :
         LastCall.out.posts[k].body =
           SetItem(Parsed(LastCall.user_info), "email", PyStr(EMAIL_RECIPIENT))

\* C12 as amended: called with a user_info that is a JSON object,
\* contact_support makes no POST when NOLEAD_WEBHOOK is unset and else one
\* POST to it, whose body has the payload's fields unchanged but for email,
\* which is the value of EMAIL_RECIPIENT, and returns success = true with the
\* fixed confirmation message whether the POST answered or raised; called with
\* valid JSON that is not an object it makes no POST and returns success =
\* false with "Failed to contact support".
C12_JsonObjectIsForwardedToSupport ==
  (SupportCall /\ IsValidJson(LastCall.user_info)) =>
    LET info == Parsed(LastCall.user_info)
        out == LastCall.out IN
    /\ out.raised = "none"
    /\ out.ret.keys = {"success", "message"}
    /\ LastCall.webhook_url \in SupportUrls
    /\ IF info.py = "dict"
       THEN /\ out.ret.success = TRUE
            /\ out.ret.message = Forwarded
            /\ Len(out.posts) = IF LastCall.webhook_url # "" THEN 1 ELSE 0
            /\ \A k \in 1..Len(out.posts) :
                 /\ out.posts[k].url = LastCall.webhook_url
                 /\ out.posts[k].body.py = "dict"
                 /\ DOMAIN out.posts[k].body.d = DOMAIN info.d \cup {"email"}
                 /\ out.posts[k].body.d["email"] = PyStr(EMAIL_RECIPIENT)
                 /\ \A f \in DOMAIN info.d \ {"email"} :
                      out.posts[k].body.d[f] = info.d[f]
       ELSE /\ out.ret.success = FALSE
            /\ out.ret.message = "Failed to contact support"
            /\ out.posts = <<>>
C12_Witness ==
  /\ pc = "chat_tool_loop"
  /\ SupportCall /\ LastCall.user_info = PyStr(P_NOMAIL)
  /\ Len(LastCall.out.posts) = 1 /\ ~LastCall.out.posts[1].ok
  /\ LastCall.out.posts[1].body.d["name"] = PyStr("Bob")
  /\ LastCall.out.ret.success
  /\ tool_outputs[Len(tool_outputs)].output.json_of.message = Forwarded

\* C13: in a requires_action batch, a tool call whose name is not registered
\* invokes no handler and gets the output {error: "Function not found"}; one
\* with a registered name whose arguments are not valid JSON, or do not decode
\* to a mapping with just user_info, invokes no handler and gets {error:
\* "Invalid function arguments"}; the step of the handler that processes such
\* a call goes on to the next call of the batch without answering the request,
\* and the batch is submitted only when every call of it has been processed.
Unregistered(tc) == tc.name \notin FUNCTIONS
BadArguments(tc) ==
  /\ tc.name \in FUNCTIONS
  /\ \/ ~IsValidJson(PyStr(tc.arguments))
     \/ ~BindsUserInfo(Parsed(PyStr(tc.arguments)))
Refused(tc) == Unregistered(tc) \/ BadArguments(tc)
C13_Outputs ==
  /\ (InChat /\ pc = "chat_tool_loop") =>
       /\ Len(tool_outputs) = idx - 1
       /\ \A i \in 1..(idx - 1) :
            LET tc == run_status.tool_calls[i] IN
            /\ Unregistered(tc) =>
                 tool_outputs[i] = ToolOutput(tc.id, ErrorPayload("Function not found"))
            /\ BadArguments(tc) =>
                 tool_outputs[i] = ToolOutput(tc.id, ErrorPayload("Invalid function arguments"))
            /\ Refused(tc) => obs.handled[tc.id] = 0
            /\ (i = idx - 1 /\ Refused(tc)) => ~LastCall.invoked
  /\ (InChat /\ pc = "chat_sleep" /\ run_status.status = "requires_action") =>
       idx = Len(run_status.tool_calls) + 1
C13_RefusedCallsGetErrorOutputs ==
  /\ []C13_Outputs
  /\ [][(/\ pc = "chat_tool_loop"
         /\ idx <= Len(run_status.tool_calls)
         /\ Refused(run_status.tool_calls[idx])
         /\ <<pc, idx, tool_outputs, http>>' # <<pc, idx, tool_outputs, http>>)
        => /\ pc' = "chat_tool_loop"
           /\ idx' = idx + 1
           /\ http' = http
           /\ run_status' = run_status]_vars
C13_Witness ==
  /\ pc = "chat_tool_loop" /\ idx = 3
  /\ run_status.tool_calls[1].name = "book_meeting"
  /\ run_status.tool_calls[2] =
       [id |-> 2, name |-> "extract_user_info", arguments |-> A_WRONGKEY]
  /\ tool_outputs[1].output.json_of.error = "Function not found"
  /\ tool_outputs[2].output.json_of.error = "Invalid function arguments"
  /\ obs.handled = [i \in 1..MaxCalls |-> 0]

\* C14: a POST /chat whose body is valid and names a thread T makes its
\* hosted-API calls in this order and to these addresses: at most one
\* messages.create, on T; then at most one runs.create, on T with the
\* provisioned assistant id; then runs.retrieve and runs.submit_tool_outputs
\* only, each on T and the run that was created; then at most one
\* messages.list, on T, made only once a retrieval has shown a terminal status,
\* and nothing after it; a request that ends with no call having raised has
\* made each of the three single calls exactly once; and a request whose body
\* fails validation, a body without message for one, makes no call at all.
Made(name) == obs.calls[name]
NamesThread ==
  InChat /\ req.body.parsable /\ SchemaErrors(req.body.fields) = {} /\ Truthy(ChatThread)
Invalid ==
  /\ InChat
  /\ \/ ~req.body.parsable
     \/ SchemaErrors(req.body.fields) # {}
     \/ "message" \notin DOMAIN req.body.fields
NoCallMade == obs.calls = InitObs.calls /\ obs.loop_calls = {} /\ obs.last_api = NoApi
C14_Order ==
  /\ NamesThread =>
       /\ Made("threads.create") = 0
       /\ \A name \in {"messages.create", "runs.create", "messages.list"} : Made(name) <= 1
       /\ Made("runs.create") <= Made("messages.create")
       /\ obs.loop_calls # {} => (Made("runs.create") = 1 /\ "runs.retrieve" \in obs.loop_calls)
       /\ Made("messages.list") = 1 =>
            /\ "runs.retrieve" \in obs.loop_calls
            /\ obs.last_status \in Terminal
            /\ obs.last_api.name = "messages.list"
       /\ obs.last_api.name # "none" => obs.last_api.thread_id = ChatThread.s
       /\ obs.last_api.name \in LoopCalls =>
            /\ obs.last_api.run_id = host.run_id
            /\ host.run_id # ""
       /\ obs.last_api.name = "runs.create" => obs.last_api.assistant_id = assistant_id
       /\ host.run_id # "" =>
            /\ host.run_thread = ChatThread.s
            /\ host.run_assistant = assistant_id
            /\ assistant_id \in {"asst_old", NewAssistantId}
       /\ (pc = "done" /\ ~obs.api_failed) =>
            /\ Made("messages.create") = 1
            /\ Made("runs.create") = 1
            /\ Made("messages.list") = 1
  /\ Invalid => (NoCallMade /\ host.threads = InitialThreads /\ host.run = NoRun)
C14_CallsInFixedOrder ==
  /\ []C14_Order
  /\ [][(NamesThread /\ obs'.last_api # obs.last_api) =>
          CASE obs.last_api.name = "none" -> obs'.last_api.name = "messages.create"
            [] obs.last_api.name = "messages.create" -> obs'.last_api.name = "runs.create"
            [] obs.last_api.name = "runs.create" -> obs'.last_api.name = "runs.retrieve"
            [] obs.last_api.name = "runs.retrieve" ->
                 obs'.last_api.name \in {"runs.submit_tool_outputs", "messages.list"}
            [] obs.last_api.name = "runs.submit_tool_outputs" ->
                 obs'.last_api.name = "runs.retrieve"
            [] OTHER -> FALSE]_vars
  /\ [][(NamesThread /\ Made("messages.list") = 1) => obs' = obs]_vars
C14_Witness ==
  /\ NamesThread /\ pc = "done" /\ http.status = 200
  /\ obs.loop_calls = LoopCalls
  /\ obs.last_api = [name |-> "messages.list", thread_id |-> "t2", run_id |-> "",
                     assistant_id |-> ""]
  /\ host.run_assistant = "asst_old" /\ host.run_thread = "t2"
  /\ run = NewRunId
====
